---- MODULE Spec2Model ----
(***************************************************************************)
(* Feedback triage, feedback store and Refinement Lab of Dana's Brain.     *)
(*                                                                         *)
(* Scores are held in hundredths (0.85 is 85).  Timestamps are integers;   *)
(* one unit is one day.  A text is a sequence of tokens: a word of the     *)
(* vocabulary or " ", a run of whitespace.                                 *)
(***************************************************************************)
EXTENDS Integers, Sequences, FiniteSets, TLC

VARIABLES feedback, now, sub, ses, sweep, tri, hist, api, calc, chat

vars == <<feedback, now, sub, ses, sweep, tri, hist, api, calc, chat>>

----------------------------------------------------------------------------
(* Bounds *)

MaxTime == 8
MaxRecords == 2
MaxWords == 5
MaxSelect == 1
MaxHistory == 2

----------------------------------------------------------------------------
(* Values *)

NullDate == -1
NullData == <<>>
NoAgent == "None"

StrategicMiss == "Strategic Miss / DNA Mismatch"

Categories ==
  {"Tone", "Length", "Words", "Structure", "Platform_Fit", StrategicMiss, "Other"}

Ratings == 1..5

valid_statuses ==
  {"pending", "approved", "rejected", "flagged", "pending_refinement", "skipped", "discarded"}

Lower(s) ==
  CASE s = "APPROVED" -> "approved"
    [] s = "PENDING_REFINEMENT" -> "pending_refinement"
    [] s = "SKIPPED" -> "skipped"
    [] s = "DISCARDED" -> "discarded"
    [] s = "Approved" -> "approved"
    [] s = "Pending_Refinement" -> "pending_refinement"
    [] s = "Flagged" -> "flagged"
    [] s = "ARCHIVED" -> "archived"
    [] s = "Done" -> "done"
    [] s = "Tone" -> "tone"
    [] s = "Override" -> "override"
    [] OTHER -> s

Min(a, b) == IF a < b THEN a ELSE b

Abs(a) == IF a < 0 THEN 0 - a ELSE a

----------------------------------------------------------------------------
(* Texts *)

Space == " "

NWords(n, w) == [i \in 1..(2 * n - 1) |-> IF i % 2 = 1 THEN w ELSE Space]

Words(text) == SelectSeq(text, LAMBDA tok : tok # Space)

IsBlank(text) == Len(Words(text)) = 0

(* A word of 990 characters. *)
LongWord == "x * 990"

(* len() of a token of the vocabulary. *)
TokenLen(tok) ==
  CASE tok = Space -> 1
    [] tok \in {"as", "if"} -> 2
    [] tok \in {"bad", "new", "you", "are", "now", "act", "טון"} -> 3
    [] tok \in {"tone", "Tone", "קצרה"} -> 4
    [] tok = "reset" -> 5
    [] tok \in {"ignore", "system", "prompt", "forget", "a@b.co"} -> 6
    [] tok = "opening" -> 7
    [] tok \in {"previous", "override", "Override"} -> 8
    [] tok = "disregard" -> 9
    [] tok \in {"everything", "5551234567"} -> 10
    [] tok = "instruction" -> 11
    [] tok \in {"instructions", "555-123-4567"} -> 12
    [] tok = "[CARD_REDACTED]" -> 15
    [] tok \in {"[PHONE_REDACTED]", "[EMAIL_REDACTED]", "4111111111111111"} -> 16
    [] tok = "4111-1111-1111-1111" -> 19
    [] tok = "[PHONE_REDACTED]111111" -> 22
    [] tok = "[SANITIZED: Suspicious content removed]" -> 39
    [] tok = LongWord -> 990
    [] OTHER -> 1

RECURSIVE TextLen(_)
TextLen(text) == IF text = <<>> THEN 0 ELSE TokenLen(Head(text)) + TextLen(Tail(text))

(* text[:n], on whole tokens. *)
RECURSIVE TakeChars(_, _)
TakeChars(text, n) ==
  IF text = <<>> \/ TokenLen(Head(text)) > n THEN <<>>
  ELSE <<Head(text)>> \o TakeChars(Tail(text), n - TokenLen(Head(text)))

RECURSIVE LStrip(_)
LStrip(text) == IF text # <<>> /\ Head(text) = Space THEN LStrip(Tail(text)) ELSE text

RECURSIVE RStrip(_)
RStrip(text) ==
  IF text # <<>> /\ text[Len(text)] = Space THEN RStrip(SubSeq(text, 1, Len(text) - 1))
  ELSE text

Strip(text) == RStrip(LStrip(text))

----------------------------------------------------------------------------
(* Actionability classifier.  llm is the outcome of the chat completion:   *)
(* ok = FALSE when the call or the reading of its answer raises, and       *)
(* failure says where; ok = TRUE when the answer is a JSON object, fields  *)
(* being the keys it holds.                                                *)

(* float() of the confidence of the answer: no range is imposed on it. *)
LLMConfidences == {85, 95, 150, -20}

(* What raises in the try block: the call, json.loads, result.get on a     *)
(* value that is no object, float() of the confidence.                     *)
LLMFailures == {"service_error", "timeout", "unparsable", "not_object", "bad_confidence"}

LLMFailure(failure) ==
  [ok |-> FALSE, failure |-> failure, fields |-> {}, is_actionable |-> FALSE, confidence |-> 0]

NoLLM == LLMFailure("service_error")

LLMResponses ==
  {LLMFailure(failure) : failure \in LLMFailures}
    \cup {[ok |-> TRUE, failure |-> "none", fields |-> fields,
           is_actionable |-> IF "is_actionable" \in fields THEN a ELSE FALSE,
           confidence |-> IF "confidence" \in fields THEN c ELSE 0] :
            fields \in SUBSET {"is_actionable", "confidence"}, a \in BOOLEAN,
            c \in LLMConfidences}

(* Variant: the fallback takes four words as enough. *)
classify_fallback_four_words(feedback_text, category, rating, llm) ==
  LET word_count == Len(Words(feedback_text)) IN
  IF IsBlank(feedback_text)
    THEN [is_actionable |-> FALSE, confidence |-> 0, reason |-> "Empty feedback",
          llm_called |-> FALSE]
  ELSE IF word_count < 2
    THEN [is_actionable |-> FALSE, confidence |-> 10, reason |-> "Too short - likely vague",
          llm_called |-> FALSE]
  ELSE IF llm.ok
    THEN [is_actionable |-> IF "is_actionable" \in llm.fields THEN llm.is_actionable ELSE FALSE,
          confidence |-> IF "confidence" \in llm.fields THEN llm.confidence ELSE 50,
          reason |-> "llm", llm_called |-> TRUE]
  ELSE IF word_count >= 4
    THEN [is_actionable |-> TRUE, confidence |-> 50,
          reason |-> "Fallback: probably actionable", llm_called |-> TRUE]
  ELSE [is_actionable |-> FALSE, confidence |-> 50, reason |-> "Fallback: probably vague",
        llm_called |-> TRUE]

(* Variant: a single word is sent to the service like any other text. *)
classify_one_word_to_llm(feedback_text, category, rating, llm) ==
  LET word_count == Len(Words(feedback_text)) IN
  IF IsBlank(feedback_text)
    THEN [is_actionable |-> FALSE, confidence |-> 0, reason |-> "Empty feedback",
          llm_called |-> FALSE]
  ELSE IF llm.ok
    THEN [is_actionable |-> IF "is_actionable" \in llm.fields THEN llm.is_actionable ELSE FALSE,
          confidence |-> IF "confidence" \in llm.fields THEN llm.confidence ELSE 50,
          reason |-> "llm", llm_called |-> TRUE]
  ELSE IF word_count >= 5
    THEN [is_actionable |-> TRUE, confidence |-> 50,
          reason |-> "Fallback: probably actionable", llm_called |-> TRUE]
  ELSE [is_actionable |-> FALSE, confidence |-> 50, reason |-> "Fallback: probably vague",
        llm_called |-> TRUE]

(* A missing key of the answer reads as result.get's default: False, 0.5.  *)
classify_feedback_actionability(feedback_text, category, rating, llm) ==
  LET word_count == Len(Words(feedback_text)) IN
  IF IsBlank(feedback_text)
    THEN [is_actionable |-> FALSE, confidence |-> 0, reason |-> "Empty feedback",
          llm_called |-> FALSE]
  ELSE IF word_count < 2
    THEN [is_actionable |-> FALSE, confidence |-> 10, reason |-> "Too short - likely vague",
          llm_called |-> FALSE]
  ELSE IF llm.ok
    THEN [is_actionable |-> IF "is_actionable" \in llm.fields THEN llm.is_actionable ELSE FALSE,
          confidence |-> IF "confidence" \in llm.fields THEN llm.confidence ELSE 50,
          reason |-> "llm", llm_called |-> TRUE]
  ELSE IF word_count >= 5
    THEN [is_actionable |-> TRUE, confidence |-> 50,
          reason |-> "Fallback: probably actionable", llm_called |-> TRUE]
  ELSE [is_actionable |-> FALSE, confidence |-> 50, reason |-> "Fallback: probably vague",
        llm_called |-> TRUE]

----------------------------------------------------------------------------
(* Triage.  classified holds the classifier's answer when it was called.   *)

(* Variant: the rating-5 rule is tried before the category rule. *)
evaluate_score5_first(score, text, category, llm, t) ==
  IF score = 5
    THEN [status |-> "APPROVED", actionability_score |-> 100,
          reason |-> "Score 5 - Auto-approved",
          lab_entry_date |-> NullDate, classified |-> <<>>]
  ELSE IF category = StrategicMiss
    THEN [status |-> "PENDING_REFINEMENT", actionability_score |-> 0,
          reason |-> "Strategic Miss - Mandatory Lab review",
          lab_entry_date |-> t, classified |-> <<>>]
  ELSE LET c == classify_feedback_actionability(text, category, score, llm) IN
    IF c.is_actionable
      THEN [status |-> "APPROVED", actionability_score |-> c.confidence,
            reason |-> "Actionable", lab_entry_date |-> NullDate, classified |-> <<c>>]
      ELSE [status |-> "PENDING_REFINEMENT", actionability_score |-> c.confidence,
            reason |-> "Vague", lab_entry_date |-> t, classified |-> <<c>>]

(* Variant: no rating-5 rule, a rating of 5 goes to the classifier. *)
evaluate_no_score5_rule(score, text, category, llm, t) ==
  IF category = StrategicMiss
    THEN [status |-> "PENDING_REFINEMENT", actionability_score |-> 0,
          reason |-> "Strategic Miss - Mandatory Lab review",
          lab_entry_date |-> t, classified |-> <<>>]
  ELSE LET c == classify_feedback_actionability(text, category, score, llm) IN
    IF c.is_actionable
      THEN [status |-> "APPROVED", actionability_score |-> c.confidence,
            reason |-> "Actionable", lab_entry_date |-> NullDate, classified |-> <<c>>]
      ELSE [status |-> "PENDING_REFINEMENT", actionability_score |-> c.confidence,
            reason |-> "Vague", lab_entry_date |-> t, classified |-> <<c>>]

(* Variant: vague feedback is sent to the Lab without a lab entry date. *)
evaluate_vague_without_date(score, text, category, llm, t) ==
  IF category = StrategicMiss
    THEN [status |-> "PENDING_REFINEMENT", actionability_score |-> 0,
          reason |-> "Strategic Miss - Mandatory Lab review",
          lab_entry_date |-> t, classified |-> <<>>]
  ELSE IF score = 5
    THEN [status |-> "APPROVED", actionability_score |-> 100,
          reason |-> "Score 5 - Auto-approved",
          lab_entry_date |-> NullDate, classified |-> <<>>]
  ELSE LET c == classify_feedback_actionability(text, category, score, llm) IN
    IF c.is_actionable
      THEN [status |-> "APPROVED", actionability_score |-> c.confidence,
            reason |-> "Actionable", lab_entry_date |-> NullDate, classified |-> <<c>>]
      ELSE [status |-> "PENDING_REFINEMENT", actionability_score |-> c.confidence,
            reason |-> "Vague", lab_entry_date |-> NullDate, classified |-> <<c>>]

evaluate_feedback_quality(score, text, category, llm, t) ==
  IF category = StrategicMiss
    THEN [status |-> "PENDING_REFINEMENT", actionability_score |-> 0,
          reason |-> "Strategic Miss - Mandatory Lab review",
          lab_entry_date |-> t, classified |-> <<>>]
  ELSE IF score = 5
    THEN [status |-> "APPROVED", actionability_score |-> 100,
          reason |-> "Score 5 - Auto-approved",
          lab_entry_date |-> NullDate, classified |-> <<>>]
  ELSE LET c == classify_feedback_actionability(text, category, score, llm) IN
    IF c.is_actionable
      THEN [status |-> "APPROVED", actionability_score |-> c.confidence,
            reason |-> "Actionable", lab_entry_date |-> NullDate, classified |-> <<c>>]
      ELSE [status |-> "PENDING_REFINEMENT", actionability_score |-> c.confidence,
            reason |-> "Vague", lab_entry_date |-> t, classified |-> <<c>>]

----------------------------------------------------------------------------
(* Confidence calculator.  Sub-scores and the result are in hundredths.    *)

english_keywords ==
  {"word", "phrase", "sentence", "opening", "closing", "formal", "casual", "long",
   "short", "tone", "style", "structure", "content", "ending", "beginning", "length"}

hebrew_keywords ==
  {"מילה", "ביטוי", "משפט", "פתיחה", "סגירה", "רשמי", "קליל", "ארוך", "קצר", "טון",
   "סגנון", "מבנה", "תוכן", "סיום", "התחלה", "אורך", "קצרה"}

(* kw in tok, for the keywords and the tokens of the vocabulary. *)
KeywordsIn(tok) ==
  CASE tok = "tone" -> {"tone"}
    [] tok = "opening" -> {"opening"}
    [] tok = "טון" -> {"טון"}
    [] tok = "קצרה" -> {"קצר", "קצרה"}
    [] OTHER -> {}

(* Variant: a blank text scores as the base. *)
calc_context_score_blank_as_base(fb) ==
  Min(50 + (IF fb.category # "Other" THEN 20 ELSE 0)
         + (IF TextLen(fb.raw_text_feedback) > 20 THEN 20 ELSE 0)
         + (IF fb.rating \in {1, 5} THEN 10 ELSE 0), 100)

(* Variant: a text of exactly 20 characters gets the length bonus. *)
calc_context_score_from_20_chars(fb) ==
  IF IsBlank(fb.raw_text_feedback) THEN 20
  ELSE Min(50 + (IF fb.category # "Other" THEN 20 ELSE 0)
              + (IF TextLen(fb.raw_text_feedback) >= 20 THEN 20 ELSE 0)
              + (IF fb.rating \in {1, 5} THEN 10 ELSE 0), 100)

calc_context_score(fb) ==
  IF IsBlank(fb.raw_text_feedback) THEN 20
  ELSE Min(50 + (IF fb.category # "Other" THEN 20 ELSE 0)
              + (IF TextLen(fb.raw_text_feedback) > 20 THEN 20 ELSE 0)
              + (IF fb.rating \in {1, 5} THEN 10 ELSE 0), 100)

RECURSIVE SumRatings(_, _)
SumRatings(rows, S) ==
  IF S = {} THEN 0
  ELSE LET i == CHOOSE j \in S : TRUE IN rows[i].rating + SumRatings(rows, S \ {i})

(* Variant: the average is taken over the whole history. *)
calc_consistency_score_whole_history(fb, historical_data) ==
  LET same_context == DOMAIN historical_data
      n == Cardinality(same_context)
      total == SumRatings(historical_data, same_context)
      diffn == Abs(fb.rating * n - total)
  IN IF Len(historical_data) = 0 THEN 70
     ELSE IF same_context = {} THEN 70
     ELSE IF diffn <= n THEN 100
     ELSE IF diffn <= 2 * n THEN 60
     ELSE 30

calc_consistency_score(fb, historical_data) ==
  LET same_context == {i \in DOMAIN historical_data :
                         /\ historical_data[i].persona = fb.persona
                         /\ historical_data[i].platform = fb.platform}
      n == Cardinality(same_context)
      total == SumRatings(historical_data, same_context)
      diffn == Abs(fb.rating * n - total)
  IN IF Len(historical_data) = 0 THEN 70
     ELSE IF same_context = {} THEN 70
     ELSE IF diffn <= n THEN 100
     ELSE IF diffn <= 2 * n THEN 60
     ELSE 30

(* Variant: every occurrence of a keyword counts. *)
calc_specificity_score_counts_occurrences(fb) ==
  LET text == fb.raw_text_feedback
      found == {p \in (DOMAIN text) \X (hebrew_keywords \cup english_keywords) :
                  p[2] \in KeywordsIn(Lower(text[p[1]]))}
      matches == Cardinality(found)
  IN IF matches >= 2 THEN 100 ELSE IF matches = 1 THEN 70 ELSE 40

calc_specificity_score(fb) ==
  LET text == fb.raw_text_feedback
      found == {kw \in hebrew_keywords \cup english_keywords :
                  \E i \in DOMAIN text : kw \in KeywordsIn(Lower(text[i]))}
      matches == Cardinality(found)
  IN IF matches >= 2 THEN 100 ELSE IF matches = 1 THEN 70 ELSE 40

(* The doubles of line 42.  The result of (context * 0.3) + (consistency *  *)
(* 0.4) + (specificity * 0.3) in IEEE 754 binary64, on the doubles the     *)
(* three sub-scores return, against the double of the decimal value of the *)
(* same sum: the triples of sub-scores, in hundredths, whose result lies   *)
(* one unit in the last place above it, one below, two below.              *)
RoundedUp ==
  {<<20, 100, 40>>, <<50, 30, 100>>, <<50, 100, 100>>, <<60, 100, 40>>,
   <<60, 100, 100>>}

RoundedDown ==
  {<<20, 70, 40>>, <<20, 70, 70>>, <<20, 70, 100>>, <<50, 70, 40>>, <<50,
   70, 70>>, <<60, 70, 70>>, <<70, 30, 40>>, <<70, 30, 70>>, <<70, 30,
   100>>, <<70, 60, 70>>, <<70, 100, 100>>, <<80, 30, 100>>, <<80, 70,
   40>>, <<80, 70, 70>>, <<80, 70, 100>>, <<90, 70, 40>>, <<90, 70, 70>>,
   <<90, 70, 100>>, <<90, 100, 40>>, <<90, 100, 70>>, <<100, 30, 40>>,
   <<100, 30, 70>>, <<100, 60, 40>>, <<100, 60, 70>>, <<100, 60, 100>>,
   <<100, 70, 40>>, <<100, 70, 100>>, <<100, 100, 70>>}

RoundedDownTwice ==
  {<<100, 70, 70>>}

(* The units in the last place between the value returned and the decimal. *)
RoundingUlps(context, consistency, specificity) ==
  LET scores == <<context, consistency, specificity>>
  IN IF scores \in RoundedUp THEN 1
     ELSE IF scores \in RoundedDown THEN 0 - 1
     ELSE IF scores \in RoundedDownTwice THEN 0 - 2
     ELSE 0

calculate_confidence_ulps(fb, historical_data) ==
  RoundingUlps(calc_context_score(fb), calc_consistency_score(fb, historical_data),
               calc_specificity_score(fb))

(* confidence <= bound and confidence >= bound on the doubles, bound being *)
(* the double of a decimal in hundredths.                                  *)
FloatLeq(hundredths, ulps, bound) == hundredths < bound \/ (hundredths = bound /\ ulps <= 0)

FloatGeq(hundredths, ulps, bound) == hundredths > bound \/ (hundredths = bound /\ ulps >= 0)

(* Variant: context weighs 0.4 and consistency 0.3. *)
calculate_confidence_context_heaviest(fb, historical_data) ==
  LET context == calc_context_score(fb)
      consistency == calc_consistency_score(fb, historical_data)
      specificity == calc_specificity_score(fb)
      confidence == (context * 4 + consistency * 3 + specificity * 3) \div 10
  IN IF confidence < 0 THEN 0 ELSE Min(100, confidence)

calculate_confidence(fb, historical_data) ==
  LET context == calc_context_score(fb)
      consistency == calc_consistency_score(fb, historical_data)
      specificity == calc_specificity_score(fb)
      confidence == (context * 3 + consistency * 4 + specificity * 3) \div 10
  IN IF confidence < 0 THEN 0 ELSE Min(100, confidence)

----------------------------------------------------------------------------
(* Feedback store: the rows of table feedback, a row's id is its index.    *)

Note(tag, days, text) == [tag |-> tag, days |-> days, text |-> text]

NoNote == Note("", 0, <<>>)

injection_patterns ==
  {<<"ignore", "previous">>, <<"new", "instruction">>, <<"new", "instructions">>,
   <<"system", "prompt">>, <<"forget", "everything">>, <<"override">>, <<"disregard">>,
   <<"reset", "instruction">>, <<"reset", "instructions">>, <<"you", "are", "now">>,
   <<"act", "as", "if">>}

RECURSIVE SkipSpaces(_, _)
SkipSpaces(text, i) ==
  IF i <= Len(text) /\ text[i] = Space THEN SkipSpaces(text, i + 1) ELSE i

(* re.search of a pattern with re.IGNORECASE: its words in a row from token *)
(* i, one or more whitespace tokens between two words.                      *)
RECURSIVE MatchesAt(_, _, _)
MatchesAt(text, pat, i) ==
  /\ i <= Len(text)
  /\ Lower(text[i]) = Head(pat)
  /\ Len(pat) > 1 =>
       /\ i + 1 <= Len(text)
       /\ text[i + 1] = Space
       /\ MatchesAt(text, Tail(pat), SkipSpaces(text, i + 1))

(* The three re.sub of sanitize_feedback on one token, the phone pattern    *)
(* first: it takes the first ten of sixteen digits in a row.                *)
RedactToken(tok) ==
  CASE tok \in {"555-123-4567", "5551234567"} -> "[PHONE_REDACTED]"
    [] tok = "a@b.co" -> "[EMAIL_REDACTED]"
    [] tok = "4111-1111-1111-1111" -> "[CARD_REDACTED]"
    [] tok = "4111111111111111" -> "[PHONE_REDACTED]111111"
    [] OTHER -> tok

(* The texts of the model are cut at 1000 characters between two tokens.    *)
sanitize_feedback(text) ==
  IF IsBlank(text) THEN <<>>
  ELSE LET cut == IF TextLen(text) > 1000 THEN TakeChars(text, 1000) ELSE text
       IN IF \E pat \in injection_patterns, i \in DOMAIN cut : MatchesAt(cut, pat, i)
            THEN <<"[SANITIZED: Suspicious content removed]">>
            ELSE Strip([i \in DOMAIN cut |-> RedactToken(cut[i])])

(* Variant: the status passed by the caller is ignored. *)
save_status_from_confidence(status, confidence_score) ==
  IF confidence_score >= 80 THEN "approved"
  ELSE IF confidence_score >= 50 THEN "pending"
  ELSE "flagged"

(* Variant: a high confidence approves whatever status was passed. *)
save_status_confident_approves(status, confidence_score) ==
  IF confidence_score >= 80 THEN "approved"
  ELSE IF status = "None"
    THEN IF confidence_score >= 50 THEN "pending" ELSE "flagged"
    ELSE Lower(status)

(* save_feedback, lines 178-189: the status of the new row. *)
save_status(status, confidence_score) ==
  IF status = "None"
    THEN IF confidence_score >= 80 THEN "approved"
         ELSE IF confidence_score >= 50 THEN "pending"
         ELSE "flagged"
    ELSE Lower(status)

save_feedback(rows, rating, category, raw_text_feedback, client_id, agent_type, persona, platform, confidence_score, refinement_data, lab_entry_date, actionability_score, status, t) ==
  LET st == save_status(status, confidence_score)
  IN Append(rows,
       [rating |-> rating, category |-> category,
        raw_text_feedback |-> sanitize_feedback(raw_text_feedback),
        client_id |-> client_id, agent_type |-> agent_type, persona |-> persona,
        platform |-> platform, status |-> st, confidence_score |-> confidence_score,
        refinement_data |-> refinement_data, lab_entry_date |-> lab_entry_date,
        actionability_score |-> actionability_score, created_at |-> t,
        reviewed_at |-> NullDate, notes |-> NoNote])

(* Variant: the refinement data is not written. *)
update_status_without_data(rows, feedback_id, new_status, notes, refinement_data, t) ==
  IF Lower(new_status) \notin valid_statuses THEN rows
  ELSE [i \in DOMAIN rows |->
         IF i # feedback_id THEN rows[i]
         ELSE [rows[i] EXCEPT !.status = Lower(new_status), !.reviewed_at = t,
                              !.notes = notes]]

(* Variant: the status is not validated. *)
update_status_unvalidated(rows, feedback_id, new_status, notes, refinement_data, t) ==
  [i \in DOMAIN rows |->
     IF i # feedback_id THEN rows[i]
     ELSE IF refinement_data # NullData
       THEN [rows[i] EXCEPT !.status = Lower(new_status), !.reviewed_at = t,
                            !.notes = notes, !.refinement_data = refinement_data]
       ELSE [rows[i] EXCEPT !.status = Lower(new_status), !.reviewed_at = t,
                            !.notes = notes]]

(* Variant: the lab entry date is cleared when the row leaves the Lab. *)
update_status_clears_date(rows, feedback_id, new_status, notes, refinement_data, t) ==
  IF Lower(new_status) \notin valid_statuses THEN rows
  ELSE [i \in DOMAIN rows |->
         IF i # feedback_id THEN rows[i]
         ELSE IF refinement_data # NullData
           THEN [rows[i] EXCEPT !.status = Lower(new_status), !.reviewed_at = t,
                                !.notes = notes, !.refinement_data = refinement_data,
                                !.lab_entry_date = NullDate]
           ELSE [rows[i] EXCEPT !.status = Lower(new_status), !.reviewed_at = t,
                                !.notes = notes, !.lab_entry_date = NullDate]]

(* Variant: an id that matches no row creates one. *)
update_status_upserts(rows, feedback_id, new_status, notes, refinement_data, t) ==
  IF Lower(new_status) \notin valid_statuses THEN rows
  ELSE IF feedback_id \notin DOMAIN rows
    THEN Append(rows, [rating |-> 3, category |-> "Other", raw_text_feedback |-> <<>>,
                       client_id |-> "None", agent_type |-> NoAgent, persona |-> "Unknown",
                       platform |-> "None", status |-> Lower(new_status),
                       confidence_score |-> 0, refinement_data |-> refinement_data,
                       lab_entry_date |-> NullDate, actionability_score |-> 0,
                       created_at |-> t, reviewed_at |-> t, notes |-> notes])
  ELSE [i \in DOMAIN rows |->
         IF i # feedback_id THEN rows[i]
         ELSE [rows[i] EXCEPT !.status = Lower(new_status), !.reviewed_at = t,
                              !.notes = notes,
                              !.refinement_data =
                                 IF refinement_data # NullData THEN refinement_data ELSE @]]

update_status(rows, feedback_id, new_status, notes, refinement_data, t) ==
  IF Lower(new_status) \notin valid_statuses THEN rows
  ELSE [i \in DOMAIN rows |->
         IF i # feedback_id THEN rows[i]
         ELSE IF refinement_data # NullData
           THEN [rows[i] EXCEPT !.status = Lower(new_status), !.reviewed_at = t,
                                !.notes = notes, !.refinement_data = refinement_data]
           ELSE [rows[i] EXCEPT !.status = Lower(new_status), !.reviewed_at = t,
                                !.notes = notes]]

get_recent_feedback(rows, client_id, agent_type, days, min_confidence, t) ==
  SelectSeq(rows, LAMBDA r : /\ r.client_id = client_id
                             /\ r.agent_type = agent_type
                             /\ r.confidence_score >= min_confidence
                             /\ r.created_at >= t - days)

(* Rows of the lab queue, as selected: the id and the columns the page reads. *)
LabRow(rows, i) ==
  [id |-> i, category |-> rows[i].category, lab_entry_date |-> rows[i].lab_entry_date,
   created_at |-> rows[i].created_at]

(* Variant: the second sort key is dropped, ties are ordered newest first. *)
LabBefore_newest_first(a, b) ==
  \/ a.lab_entry_date < b.lab_entry_date
  \/ a.lab_entry_date = b.lab_entry_date /\ a.created_at >= b.created_at

LabBefore(a, b) ==
  \/ a.lab_entry_date < b.lab_entry_date
  \/ a.lab_entry_date = b.lab_entry_date /\ a.created_at <= b.created_at

(* The query leaves the order of rows equal in both sort keys to the       *)
(* database: every order it can return is a result.                        *)
get_lab_queue(rows, client_id, agent_type, limit) ==
  LET sel == {i \in DOMAIN rows :
                /\ rows[i].client_id = client_id
                /\ rows[i].status = "pending_refinement"
                /\ (agent_type # NoAgent => rows[i].agent_type = agent_type)}
      n == Cardinality(sel)
      orders == {q \in [1..n -> sel] :
                   /\ \A i, j \in 1..n : i < j => q[i] # q[j]
                   /\ \A i, j \in 1..n : i < j => LabBefore(rows[q[i]], rows[q[j]])}
  IN {[k \in 1..Min(limit, n) |-> LabRow(rows, q[k])] : q \in orders}

AutoAgedNote(days_threshold) == Note("Auto-aged: No refinement after N days", days_threshold, <<>>)

(* Variant: the select does not filter on the status. *)
items_to_age_any_status(rows, cutoff) ==
  {i \in DOMAIN rows : /\ rows[i].lab_entry_date # NullDate
                       /\ rows[i].lab_entry_date < cutoff}

(* The select of auto_age_lab_items: the ids of the items to age. *)
items_to_age(rows, cutoff) ==
  {i \in DOMAIN rows : /\ rows[i].status = "pending_refinement"
                       /\ rows[i].lab_entry_date # NullDate
                       /\ rows[i].lab_entry_date < cutoff}

(* Variant: the update takes the items at the cutoff too. *)
age_update_inclusive(rows, cutoff, days_threshold) ==
  [i \in DOMAIN rows |->
     IF /\ rows[i].status = "pending_refinement"
        /\ rows[i].lab_entry_date # NullDate
        /\ rows[i].lab_entry_date <= cutoff
       THEN [rows[i] EXCEPT !.status = "skipped", !.notes = AutoAgedNote(days_threshold)]
       ELSE rows[i]]

(* The update of auto_age_lab_items. *)
age_update(rows, cutoff, days_threshold) ==
  [i \in DOMAIN rows |->
     IF /\ rows[i].status = "pending_refinement"
        /\ rows[i].lab_entry_date # NullDate
        /\ rows[i].lab_entry_date < cutoff
       THEN [rows[i] EXCEPT !.status = "skipped", !.notes = AutoAgedNote(days_threshold)]
       ELSE rows[i]]

(* auto_age_lab_items run with no other operation between its two queries. *)
auto_age_lab_items(rows, days_threshold, t) ==
  LET cutoff == t - days_threshold
      count == Cardinality(items_to_age(rows, cutoff))
  IN [count |-> count,
      rows |-> IF count > 0 THEN age_update(rows, cutoff, days_threshold) ELSE rows]

----------------------------------------------------------------------------
(* The calls with their exceptions.                                        *)

(* The check of table feedback on column status: the schema of the table   *)
(* is not among the sources, the set is the one the store documents.       *)
status_constraint(status) == status \in valid_statuses

(* save_feedback, lines 219-235: the insert raises on a violated           *)
(* constraint and nothing is inserted.                                     *)
save_feedback_raises(status, confidence_score) ==
  IF status_constraint(save_status(status, confidence_score)) THEN "None" ELSE "ValueError"

(* update_status, lines 348-350. *)
update_status_raises(new_status) ==
  IF Lower(new_status) \notin valid_statuses THEN "ValueError" ELSE "None"

AggregatorOutcomes == {"ok", "raises", "import_error"}

(* Variant: a failure of the aggregator leaves update_status as an exception. *)
aggregate_propagates(outcome) == IF outcome = "ok" THEN "None" ELSE "Exception"

(* update_status, lines 366-379: the call of aggregate_feedback_to_rag in  *)
(* its own try; what update_status raises after it.                        *)
aggregate_guarded(outcome) == "None"

----------------------------------------------------------------------------
(* History of a row, kept beside the table: whether its status has ever   *)
(* been pending_refinement, and the operation by which it first left the   *)
(* Lab ("none" while it has not).                                          *)

HistCreate(h, rows) ==
  Append(h, [was_pending |-> rows[Len(rows)].status = "pending_refinement", exit |-> "none"])

HistMutate(h, rows, targets, via) ==
  [i \in DOMAIN h |->
     [was_pending |-> h[i].was_pending \/ rows[i].status = "pending_refinement",
      exit |-> IF i \in targets /\ h[i].exit = "none" THEN via ELSE h[i].exit]]

----------------------------------------------------------------------------
(* Inputs of the pages *)

Clients == {"Lierac", "Other"}

Platforms == {"LinkedIn", "Facebook"}

Personas == {"Unknown"}

Submitters == {"u1", "u2"}

Explanations == {<<>>, <<"bad">>}

DaysThreshold == 7

LabLimit == 50

NudgeLimit == 5

platform_to_agent_type(platform) ==
  CASE platform = "LinkedIn" -> "linkedin_copywriter"
    [] platform = "Facebook" -> "facebook_copywriter"
    [] platform = "Instagram" -> "instagram_copywriter"
    [] OTHER -> "copywriter"

AgentTypes == {platform_to_agent_type(p) : p \in Platforms}

(* get_structured_prompts: the number of checkbox options and of follow-up *)
(* options of a category; an option is named by its position.              *)
get_structured_prompts(category) ==
  CASE category = "Tone" -> [options |-> 4, followup_options |-> 5]
    [] category = "Structure" -> [options |-> 5, followup_options |-> 0]
    [] category = "Words" -> [options |-> 0, followup_options |-> 0]
    [] category = "Length" -> [options |-> 3, followup_options |-> 0]
    [] category = "Platform_Fit" -> [options |-> 4, followup_options |-> 0]
    [] category = StrategicMiss -> [options |-> 6, followup_options |-> 0]
    [] OTHER -> [options |-> 0, followup_options |-> 0]

(* The checked boxes among n options, in the order of the options. *)
Checked(n) ==
  {SelectSeq([i \in 1..n |-> i], LAMBDA i : i \in S) : S \in SUBSET (1..Min(n, MaxSelect))}

LabEvents == {"visit", "refresh", "save", "skip", "discard"}

SubmitEvents == {"save", "skip", "discard"}

(* The texts of a triage: empty, whitespace only, and one word up to MaxWords words. *)
TriageTexts == {<<>>, <<Space>>} \cup {NWords(n, "bad") : n \in 1..MaxWords}

(* The submissions of the store's specification. *)
StoreRatings == {2, 5}
StoreCategories == {"Tone"}
StoreTexts == {<<"bad", Space>>, <<"override", Space, "tone">>}
StoreLLM == {NoLLM}

(* The submissions of the Lab's specification: one client, one platform. *)
LabRatings == {2, 5}
LabCategories == {"Tone", "Words", StrategicMiss}
LabTexts == {<<>>}
LabClient == "Lierac"
LabPlatform == "LinkedIn"

----------------------------------------------------------------------------
(* State *)

TriIdle ==
  [pc |-> "idle", score |-> 1, text |-> <<>>, category |-> "Other", llm |-> NoLLM,
   result |-> evaluate_feedback_quality(5, <<>>, "Other", NoLLM, 0)]

SubIdle ==
  [pc |-> "idle", rating |-> 3, category |-> "Tone", feedback_text |-> <<>>,
   client_id |-> "Lierac", persona |-> "Unknown", platform |-> "LinkedIn",
   confidence |-> 0, feedback_status |-> "None", actionability_score |-> 0,
   lab_entry_date |-> NullDate, triage_text |-> <<>>]

SesInit ==
  [pc |-> "idle", event |-> "visit", selected_options |-> <<>>, selected_followup |-> <<>>,
   short_explanation |-> <<>>, cutoff |-> 0, count |-> 0, lab_queue |-> <<>>,
   page_loaded |-> FALSE, client_id |-> LabClient]

SweepIdle == [pc |-> "idle", cutoff |-> 0, count |-> 0]

ApiIdle ==
  [pc |-> "idle", op |-> "none", id |-> 0, status_arg |-> "None", confidence |-> 0,
   raised |-> "None", outcome |-> "none", seen |-> "none"]

NoFeedbackData ==
  [rating |-> 3, category |-> "Other", raw_text_feedback |-> <<>>, persona |-> "Unknown",
   platform |-> "LinkedIn"]

CalcIdle ==
  [pc |-> "idle", op |-> "none", fb |-> NoFeedbackData, historical_data |-> <<>>,
   llm |-> NoLLM, classification |-> classify_feedback_actionability(<<>>, "Other", 3, NoLLM),
   score |-> 0, ulps |-> 0, text |-> <<>>]

Handlers == {"h1", "h2", "h3"}

(* start.py: the module globals TOOLS and TOOLS_LOCK, the thread of the    *)
(* event loop (loop: the handler running on it up to its next await), the  *)
(* worker thread of cl.make_async, and where each start() handler stands.  *)
ChatInit ==
  [pc |-> [h \in Handlers |-> "idle"], TOOLS |-> "None", TOOLS_LOCK |-> "free",
   loop |-> "free", worker |-> "none", initializing |-> {}, assigned |-> 0]

Init ==
  /\ feedback = <<>>
  /\ now = 0
  /\ sub = [u \in Submitters |-> SubIdle]
  /\ ses = SesInit
  /\ sweep = SweepIdle
  /\ tri = TriIdle
  /\ hist = <<>>
  /\ api = ApiIdle
  /\ calc = CalcIdle
  /\ chat = ChatInit

----------------------------------------------------------------------------
(* Triage on its own: evaluate_feedback_quality applied to every input.    *)

TriageEvaluate(score, text, category, llm) ==
  /\ tri.pc = "idle"
  /\ tri' = [pc |-> "done", score |-> score, text |-> text, category |-> category,
             llm |-> llm, result |-> evaluate_feedback_quality(score, text, category, llm, now)]
  /\ UNCHANGED <<feedback, now, sub, ses, sweep, hist, api, calc, chat>>

TriageReturn ==
  /\ tri.pc = "done"
  /\ tri' = TriIdle
  /\ UNCHANGED <<feedback, now, sub, ses, sweep, hist, api, calc, chat>>

(* The clock is read at the instants of Instants: the first two days, and *)
(* the days from the aging threshold on.                                  *)
Instants == {t \in 0..MaxTime : t <= 1 \/ t >= DaysThreshold}

Tick ==
  /\ \E t \in Instants :
       /\ t > now
       /\ \A u \in Instants : u > now => t <= u
       /\ now' = t
  /\ UNCHANGED <<feedback, sub, ses, sweep, tri, hist, api, calc, chat>>

NextTriage ==
  \/ \E score \in Ratings, text \in TriageTexts, category \in Categories, llm \in LLMResponses :
       TriageEvaluate(score, text, category, llm)
  \/ TriageReturn
  \/ Tick

SpecTriage == Init /\ [][NextTriage]_vars

----------------------------------------------------------------------------
(* Editor's Desk: display_post_card, the submit button.                    *)

(* Lines 194-252: history, confidence and triage. *)
SubmitEvaluate(u, rating, category, feedback_text, client_id, persona, platform, llm) ==
  /\ sub[u].pc = "idle"
  /\ LET agent_type == platform_to_agent_type(platform)
         historical == get_recent_feedback(feedback, client_id, agent_type, 30, 0, now)
         feedback_data == [rating |-> rating, category |-> category,
                           raw_text_feedback |-> feedback_text, persona |-> persona,
                           platform |-> platform]
         triage_result == evaluate_feedback_quality(rating, feedback_text, category, llm, now)
     IN sub' = [sub EXCEPT ![u] =
                  [pc |-> "save", rating |-> rating, category |-> category,
                   feedback_text |-> feedback_text, client_id |-> client_id,
                   persona |-> persona, platform |-> platform,
                   confidence |-> calculate_confidence(feedback_data, historical),
                   feedback_status |-> triage_result.status,
                   actionability_score |-> triage_result.actionability_score,
                   lab_entry_date |-> triage_result.lab_entry_date,
                   triage_text |-> feedback_text]]
  /\ UNCHANGED <<feedback, now, ses, sweep, tri, hist, api, calc, chat>>

(* Lines 243-278: sanitize and save. *)
SubmitSave(u) ==
  /\ sub[u].pc = "save"
  /\ feedback' = save_feedback(feedback, sub[u].rating, sub[u].category,
                               sanitize_feedback(sub[u].feedback_text), sub[u].client_id,
                               platform_to_agent_type(sub[u].platform), sub[u].persona,
                               sub[u].platform, sub[u].confidence, NullData,
                               sub[u].lab_entry_date, sub[u].actionability_score,
                               Lower(sub[u].feedback_status), now)
  /\ hist' = HistCreate(hist, feedback')
  /\ sub' = [sub EXCEPT ![u] = SubIdle]
  /\ UNCHANGED <<now, ses, sweep, tri, api, calc, chat>>

InFlight == Cardinality({u \in Submitters : sub[u].pc = "save"})

----------------------------------------------------------------------------
(* The store on its own: submissions, the Lab's calls of update_status and *)
(* auto_age_lab_items run as one step.                                     *)

LabNote(new_status) ==
  CASE new_status = "approved" -> Note("Refined in Lab: ", 0, <<>>)
    [] new_status = "SKIPPED" -> Note("Skipped refinement - saved original vague feedback", 0, <<>>)
    [] OTHER -> Note("Discarded - not useful", 0, <<>>)

LabData(rows, feedback_id, opts, fups, expl, t) ==
  <<[category |-> rows[feedback_id].category, selected_options |-> opts,
     selected_followup |-> fups, short_explanation |-> expl, refined_at |-> t]>>

StoreUpdateStatus(feedback_id, new_status) ==
  /\ feedback_id \in DOMAIN feedback
  /\ feedback[feedback_id].status = "pending_refinement"
  /\ feedback' = update_status(feedback, feedback_id, new_status, LabNote(new_status),
                               IF new_status = "approved"
                                 THEN LabData(feedback, feedback_id, <<>>, <<>>, <<>>, now)
                                 ELSE NullData,
                               now)
  /\ hist' = HistMutate(hist, feedback', {feedback_id},
                        CASE new_status = "approved" -> "save"
                          [] new_status = "SKIPPED" -> "skip"
                          [] OTHER -> "discard")
  /\ UNCHANGED <<now, sub, ses, sweep, tri, api, calc, chat>>

StoreAutoAge(days_threshold) ==
  /\ feedback' = auto_age_lab_items(feedback, days_threshold, now).rows
  /\ feedback' # feedback
  /\ hist' = HistMutate(hist, feedback', items_to_age(feedback, now - days_threshold), "age")
  /\ UNCHANGED <<now, sub, ses, sweep, tri, api, calc, chat>>

NextStore ==
  \/ \E rating \in StoreRatings, category \in StoreCategories, text \in StoreTexts,
        client_id \in Clients, persona \in Personas, platform \in Platforms,
        llm \in StoreLLM :
       \E u \in Submitters :
         /\ Len(feedback) + InFlight < MaxRecords
         /\ SubmitEvaluate(u, rating, category, text, client_id, persona, platform, llm)
  \/ \E u \in Submitters : SubmitSave(u)
  \/ \E feedback_id \in 1..MaxRecords, new_status \in {"approved", "SKIPPED", "DISCARDED"} :
       StoreUpdateStatus(feedback_id, new_status)
  \/ StoreAutoAge(DaysThreshold)
  \/ Tick

SpecStore == Init /\ [][NextStore]_vars

----------------------------------------------------------------------------
(* The store called directly: any status, in any letter case, any          *)
(* confidence; the aggregator of update_status succeeds or fails.          *)

ApiStatuses ==
  {"None", "APPROVED", "Approved", "Pending_Refinement", "skipped", "ARCHIVED"}

ApiConfidences == {30, 90}

ApiSave(status, confidence_score, lab_entry_date) ==
  /\ api.pc = "idle"
  /\ Len(feedback) < MaxRecords
  /\ LET raised == save_feedback_raises(status, confidence_score)
     IN /\ IF raised = "None"
             THEN /\ feedback' = save_feedback(feedback, 3, "Tone", <<>>, LabClient,
                                               platform_to_agent_type(LabPlatform), "Unknown",
                                               LabPlatform, confidence_score, NullData,
                                               lab_entry_date, 50, status, now)
                  /\ hist' = HistCreate(hist, feedback')
             ELSE UNCHANGED <<feedback, hist>>
        /\ api' = [ApiIdle EXCEPT !.pc = "done", !.op = "save", !.status_arg = status,
                                  !.confidence = confidence_score, !.raised = raised,
                                  !.id = Len(feedback')]
  /\ UNCHANGED <<now, sub, ses, sweep, tri, calc, chat>>

(* update_status, lines 345-364: validation and the update. *)
ApiUpdate(feedback_id, new_status) ==
  /\ api.pc = "idle"
  /\ feedback_id \in DOMAIN feedback
  /\ LET raised == update_status_raises(new_status)
     IN /\ feedback' = update_status(feedback, feedback_id, new_status, LabNote(new_status),
                                     NullData, now)
        /\ hist' = HistMutate(hist, feedback', {}, "none")
        /\ api' = [ApiIdle EXCEPT
                     !.pc = IF raised = "None" /\ Lower(new_status) = "approved"
                              THEN "aggregate" ELSE "done",
                     !.op = "update", !.id = feedback_id, !.status_arg = new_status,
                     !.raised = raised]
  /\ UNCHANGED <<now, sub, ses, sweep, tri, calc, chat>>

(* update_status on an id that matches no row. *)
ApiUpdateNoRow(feedback_id, new_status) ==
  /\ api.pc = "idle"
  /\ feedback_id \notin DOMAIN feedback
  /\ LET raised == update_status_raises(new_status)
     IN /\ feedback' = update_status(feedback, feedback_id, new_status, LabNote(new_status),
                                     NullData, now)
        /\ hist' = HistMutate(hist, feedback, {}, "none")
        /\ api' = [ApiIdle EXCEPT
                     !.pc = IF raised = "None" /\ Lower(new_status) = "approved"
                              THEN "aggregate" ELSE "done",
                     !.op = "update_no_row", !.id = feedback_id, !.status_arg = new_status,
                     !.raised = raised]
  /\ UNCHANGED <<now, sub, ses, sweep, tri, calc, chat>>

(* update_status, lines 366-379: the aggregator reads the table. *)
ApiAggregate(outcome) ==
  /\ api.pc = "aggregate"
  /\ api' = [api EXCEPT !.pc = "done", !.outcome = outcome,
                        !.seen = IF api.id \in DOMAIN feedback
                                   THEN feedback[api.id].status ELSE "none",
                        !.raised = aggregate_guarded(outcome)]
  /\ UNCHANGED <<feedback, now, sub, ses, sweep, tri, hist, calc, chat>>

ApiReturn ==
  /\ api.pc = "done"
  /\ api' = ApiIdle
  /\ UNCHANGED <<feedback, now, sub, ses, sweep, tri, hist, calc, chat>>

ApiAutoAge(days_threshold) ==
  /\ api.pc = "idle"
  /\ feedback' = auto_age_lab_items(feedback, days_threshold, now).rows
  /\ feedback' # feedback
  /\ hist' = HistMutate(hist, feedback', items_to_age(feedback, now - days_threshold), "age")
  /\ UNCHANGED <<now, sub, ses, sweep, tri, api, calc, chat>>

NextApi ==
  \/ \E status \in ApiStatuses, confidence_score \in ApiConfidences,
        lab_entry_date \in {NullDate, now} :
       ApiSave(status, confidence_score, lab_entry_date)
  \/ \E feedback_id \in 1..MaxRecords, new_status \in ApiStatuses \ {"None"} :
       ApiUpdate(feedback_id, new_status)
  \/ \E feedback_id \in 1..MaxRecords, new_status \in {"APPROVED", "skipped", "ARCHIVED"} :
       ApiUpdateNoRow(feedback_id, new_status)
  \/ \E outcome \in AggregatorOutcomes : ApiAggregate(outcome)
  \/ ApiReturn
  \/ ApiAutoAge(DaysThreshold)
  \/ Tick

SpecApi == Init /\ [][NextApi]_vars

----------------------------------------------------------------------------
(* Refinement Lab: the session of one user, one run of the page script per *)
(* event; and the visit of the page by another session, which ages.        *)

(* The submit handler of the Editor's Desk as one step. *)
Submit(rating, category, feedback_text, client_id, persona, platform, llm) ==
  /\ LET agent_type == platform_to_agent_type(platform)
         historical == get_recent_feedback(feedback, client_id, agent_type, 30, 0, now)
         feedback_data == [rating |-> rating, category |-> category,
                           raw_text_feedback |-> feedback_text, persona |-> persona,
                           platform |-> platform]
         confidence == calculate_confidence(feedback_data, historical)
         triage_result == evaluate_feedback_quality(rating, feedback_text, category, llm, now)
     IN feedback' = save_feedback(feedback, rating, category,
                                  sanitize_feedback(feedback_text), client_id, agent_type,
                                  persona, platform, confidence, NullData,
                                  triage_result.lab_entry_date,
                                  triage_result.actionability_score,
                                  Lower(triage_result.status), now)
  /\ hist' = HistCreate(hist, feedback')
  /\ UNCHANGED <<now, sub, ses, sweep, tri, api, calc, chat>>

CardShown == ses.page_loaded /\ ses.lab_queue # <<>>

LabRun(event, opts, fups, expl) ==
  /\ ses.pc = "idle"
  /\ event \in SubmitEvents => CardShown
  /\ IF event = "save"
       THEN LET prompts == get_structured_prompts(ses.lab_queue[1].category)
            IN opts \in Checked(prompts.options) /\ fups \in Checked(prompts.followup_options)
       ELSE opts = <<>> /\ fups = <<>> /\ expl = <<>>
  /\ ses' = [ses EXCEPT !.pc = "auto_age", !.event = event,
                        !.selected_options = opts, !.selected_followup = fups,
                        !.short_explanation = expl]
  /\ UNCHANGED <<feedback, now, sub, sweep, tri, hist, api, calc, chat>>

(* auto_age_lab_items, lines 543-552: the cutoff and the count. *)
LabAutoAgeSelect ==
  /\ ses.pc = "auto_age"
  /\ LET cutoff == now - DaysThreshold
         count == Cardinality(items_to_age(feedback, cutoff))
     IN ses' = [ses EXCEPT !.cutoff = cutoff, !.count = count,
                           !.pc = IF count > 0 THEN "age_update" ELSE "load"]
  /\ UNCHANGED <<feedback, now, sub, sweep, tri, hist, api, calc, chat>>

(* auto_age_lab_items, lines 554-565: the update. *)
LabAutoAgeUpdate ==
  /\ ses.pc = "age_update"
  /\ feedback' = age_update(feedback, ses.cutoff, DaysThreshold)
  /\ hist' = HistMutate(hist, feedback', items_to_age(feedback, ses.cutoff), "age")
  /\ ses' = [ses EXCEPT !.pc = "load"]
  /\ UNCHANGED <<now, sub, sweep, tri, api, calc, chat>>

(* main, lines 349-377: load the queue on the first visit or on refresh. *)
LabLoad ==
  /\ ses.pc = "load"
  /\ IF ~ses.page_loaded \/ ses.event = "refresh"
       THEN \E queue \in get_lab_queue(feedback, ses.client_id, NoAgent, LabLimit) :
              ses' = [ses EXCEPT !.lab_queue = queue, !.page_loaded = TRUE, !.pc = "card"]
       ELSE ses' = [ses EXCEPT !.pc = "card"]
  /\ UNCHANGED <<feedback, now, sub, sweep, tri, hist, api, calc, chat>>

RemoveFromQueue(queue, feedback_id) == SelectSeq(queue, LAMBDA f : f.id # feedback_id)

(* The locals of a run are dead once it ends. *)
EndRun(r) ==
  [r EXCEPT !.pc = "idle", !.event = "visit", !.selected_options = <<>>,
            !.selected_followup = <<>>, !.short_explanation = <<>>,
            !.cutoff = 0, !.count = 0]

(* display_feedback_card, lines 249-319: the call of update_status of the  *)
(* button that was clicked.                                                *)
ButtonUpdate(rows, fb, event, opts, fups, expl, t) ==
  CASE event = "save" ->
         update_status(rows, fb.id, "approved",
                       Note("Refined in Lab: ", 0, TakeChars(expl, 50)),
                       <<[category |-> fb.category, selected_options |-> opts,
                          selected_followup |-> fups, short_explanation |-> expl,
                          refined_at |-> t]>>,
                       t)
    [] event = "skip" ->
         update_status(rows, fb.id, "SKIPPED",
                       Note("Skipped refinement - saved original vague feedback", 0, <<>>),
                       NullData, t)
    [] OTHER ->
         update_status(rows, fb.id, "DISCARDED", Note("Discarded - not useful", 0, <<>>),
                       NullData, t)

(* main, lines 379-397 and display_feedback_card: the card of queue[0] and *)
(* its three buttons; an action ends in st.rerun(), a new run.             *)
LabCard ==
  /\ ses.pc = "card"
  /\ IF ses.lab_queue = <<>> \/ ses.event \notin SubmitEvents
       THEN /\ ses' = EndRun(ses)
            /\ UNCHANGED <<feedback, hist>>
       ELSE LET fb == ses.lab_queue[1]
            IN /\ feedback' = ButtonUpdate(feedback, fb, ses.event, ses.selected_options,
                                           ses.selected_followup, ses.short_explanation, now)
               /\ hist' = HistMutate(hist, feedback', {fb.id}, ses.event)
               /\ ses' = [EndRun(ses) EXCEPT
                            !.lab_queue = RemoveFromQueue(ses.lab_queue, fb.id),
                            !.event = "rerun", !.pc = "auto_age"]
  /\ UNCHANGED <<now, sub, sweep, tri, api, calc, chat>>

(* Another session loads the page: auto_age_lab_items, the select. *)
SweepSelect ==
  /\ sweep.pc = "idle"
  /\ LET cutoff == now - DaysThreshold
         count == Cardinality(items_to_age(feedback, cutoff))
     IN sweep' = IF count > 0 THEN [pc |-> "update", cutoff |-> cutoff, count |-> count]
                 ELSE SweepIdle
  /\ UNCHANGED <<feedback, now, sub, ses, tri, hist, api, calc, chat>>

(* Another session loads the page: auto_age_lab_items, the update. *)
SweepUpdate ==
  /\ sweep.pc = "update"
  /\ feedback' = age_update(feedback, sweep.cutoff, DaysThreshold)
  /\ hist' = HistMutate(hist, feedback', items_to_age(feedback, sweep.cutoff), "age")
  /\ sweep' = SweepIdle
  /\ UNCHANGED <<now, sub, ses, tri, api, calc, chat>>

Next ==
  \/ \E rating \in LabRatings, category \in LabCategories, text \in LabTexts,
        llm \in {NoLLM} :
       /\ Len(feedback) < MaxRecords
       /\ Submit(rating, category, text, LabClient, "Unknown", LabPlatform, llm)
  \/ \E event \in LabEvents, opts \in Checked(6), fups \in Checked(5),
        expl \in Explanations :
       LabRun(event, opts, fups, expl)
  \/ LabAutoAgeSelect
  \/ LabAutoAgeUpdate
  \/ LabLoad
  \/ LabCard
  \/ SweepSelect
  \/ SweepUpdate
  \/ Tick

Spec == Init /\ [][Next]_vars

----------------------------------------------------------------------------
(* Claims *)

TriageDone == tri.pc = "done"

(* C1: with category "Strategic Miss / DNA Mismatch", for every rating and *)
(* every text, triage returns PENDING_REFINEMENT, score 0.0 and a lab      *)
(* entry date, and does not call the classifier; the category rule wins    *)
(* over the rating-5 rule.  Under SpecTriage.                              *)
C1_StrategicMissToLab ==
  (TriageDone /\ tri.category = StrategicMiss) =>
    /\ tri.result.status = "PENDING_REFINEMENT"
    /\ tri.result.actionability_score = 0
    /\ tri.result.lab_entry_date # NullDate
    /\ tri.result.classified = <<>>

C1_Witness ==
  /\ TriageDone
  /\ tri.category = StrategicMiss
  /\ tri.score = 5
  /\ tri.result.status = "PENDING_REFINEMENT"

(* C2: with rating 5 and any other category, for every text, triage        *)
(* returns APPROVED, score 1.0 and no lab entry date, and does not call    *)
(* the classifier.  Under SpecTriage.                                      *)
C2_Rating5Approved ==
  (TriageDone /\ tri.category # StrategicMiss /\ tri.score = 5) =>
    /\ tri.result.status = "APPROVED"
    /\ tri.result.actionability_score = 100
    /\ tri.result.lab_entry_date = NullDate
    /\ tri.result.classified = <<>>

C2_Witness ==
  /\ TriageDone
  /\ tri.category = "Tone"
  /\ tri.score = 5
  /\ tri.text = <<>>
  /\ tri.result.status = "APPROVED"

(* C3: with rating 1..4 and a category other than Strategic Miss, triage   *)
(* returns APPROVED without lab entry date exactly when the classifier     *)
(* answers actionable, PENDING_REFINEMENT with a lab entry date exactly    *)
(* when it answers not actionable, and the classifier's confidence as the  *)
(* score; over all results the lab entry date is set iff the status is     *)
(* PENDING_REFINEMENT.  Under SpecTriage.                                  *)
C3_ClassifierDecides ==
  TriageDone =>
    /\ (tri.result.lab_entry_date # NullDate) <=> (tri.result.status = "PENDING_REFINEMENT")
    /\ (tri.score \in 1..4 /\ tri.category # StrategicMiss) =>
         LET c == classify_feedback_actionability(tri.text, tri.category, tri.score, tri.llm)
         IN /\ tri.result.status \in {"APPROVED", "PENDING_REFINEMENT"}
            /\ c.is_actionable <=>
                 (tri.result.status = "APPROVED" /\ tri.result.lab_entry_date = NullDate)
            /\ ~c.is_actionable <=>
                 (tri.result.status = "PENDING_REFINEMENT"
                    /\ tri.result.lab_entry_date # NullDate)
            /\ tri.result.actionability_score = c.confidence

C3_Witness ==
  /\ TriageDone
  /\ tri.score = 2
  /\ tri.category = "Tone"
  /\ Len(Words(tri.text)) = 3
  /\ ~tri.llm.ok
  /\ tri.result.status = "PENDING_REFINEMENT"
  /\ tri.result.actionability_score = 50

(* C4: every record is created with status approved or pending_refinement, *)
(* the lower-case form of the status triage decided.  Under SpecStore.     *)
C4_CreatedByTriage ==
  [][\A u \in Submitters :
       (sub[u].pc = "save" /\ sub'[u].pc = "idle") =>
         /\ Len(feedback') = Len(feedback) + 1
         /\ feedback'[Len(feedback')].status \in {"approved", "pending_refinement"}
         /\ feedback'[Len(feedback')].status = Lower(sub[u].feedback_status)]_vars

C4_Witness ==
  \E i, j \in DOMAIN feedback :
    /\ feedback[i].reviewed_at = NullDate /\ feedback[i].status = "pending_refinement"
    /\ feedback[j].reviewed_at = NullDate /\ feedback[j].status = "approved"
    /\ feedback[j].confidence_score < 80

QueueLimits == {1, NudgeLimit, LabLimit}

KeyLeq(a, b) ==
  \/ a.lab_entry_date < b.lab_entry_date
  \/ a.lab_entry_date = b.lab_entry_date /\ a.created_at <= b.created_at

(* C5: get_lab_queue returns the pending_refinement records of the client  *)
(* (and agent type, when given), the first limit of them in ascending      *)
(* order of lab_entry_date, then created_at.  Under SpecStore.             *)
C5_LabQueueFifo ==
  \A c \in Clients, a \in AgentTypes \cup {NoAgent}, lim \in QueueLimits :
    LET want == {i \in DOMAIN feedback :
                   /\ feedback[i].client_id = c
                   /\ a # NoAgent => feedback[i].agent_type = a
                   /\ feedback[i].status = "pending_refinement"}
        results == get_lab_queue(feedback, c, a, lim)
    IN /\ results # {}
       /\ \A q \in results :
            LET got == {q[k].id : k \in DOMAIN q}
            IN /\ got \subseteq want
               /\ Len(q) = Min(lim, Cardinality(want))
               /\ Cardinality(got) = Len(q)
               /\ \A j, k \in DOMAIN q :
                    j < k => KeyLeq(feedback[q[j].id], feedback[q[k].id])
               /\ \A i \in want \ got, k \in DOMAIN q :
                    KeyLeq(feedback[q[k].id], feedback[i])

C5_Witness ==
  \E i, j \in DOMAIN feedback :
    /\ i < j
    /\ feedback[i].status = "pending_refinement" /\ feedback[j].status = "pending_refinement"
    /\ feedback[i].client_id = feedback[j].client_id
    /\ feedback[i].agent_type = feedback[j].agent_type
    /\ feedback[j].lab_entry_date < feedback[i].lab_entry_date

AgeThresholds == {1, DaysThreshold}

(* C6: auto_age_lab_items(d) sets to skipped the records that are          *)
(* pending_refinement with a lab entry date more than d days old, writes   *)
(* their notes, and changes nothing else.  Under SpecStore.                *)
C6_AutoAgeExact ==
  \A d \in AgeThresholds :
    LET aged == auto_age_lab_items(feedback, d, now).rows
    IN /\ DOMAIN aged = DOMAIN feedback
       /\ \A i \in DOMAIN feedback :
            IF /\ feedback[i].status = "pending_refinement"
               /\ feedback[i].lab_entry_date # NullDate
               /\ now - feedback[i].lab_entry_date > d
              THEN /\ aged[i].status = "skipped"
                   /\ [aged[i] EXCEPT !.status = feedback[i].status,
                                      !.notes = feedback[i].notes] = feedback[i]
              ELSE aged[i] = feedback[i]

C6_Witness ==
  \E i, j \in DOMAIN feedback :
    /\ feedback[i].status = "pending_refinement"
    /\ now - feedback[i].lab_entry_date = DaysThreshold + 1
    /\ feedback[j].status = "pending_refinement"
    /\ now - feedback[j].lab_entry_date = DaysThreshold
    /\ auto_age_lab_items(feedback, DaysThreshold, now).rows[i].status = "skipped"

(* C7: auto_age_lab_items is idempotent: a second call at the same time    *)
(* with the same threshold changes nothing and returns 0.  Under SpecStore. *)
C7_AutoAgeIdempotent ==
  \A d \in AgeThresholds :
    LET first == auto_age_lab_items(feedback, d, now)
        second == auto_age_lab_items(first.rows, d, now)
    IN second.rows = first.rows /\ second.count = 0

C7_Witness ==
  /\ auto_age_lab_items(feedback, DaysThreshold, now).count > 0
  /\ \E i \in DOMAIN feedback : feedback[i].status = "skipped"

LabSubmitStep == ses.pc = "card" /\ ses.lab_queue # <<>> /\ ses'.pc = "auto_age"

AutoAged(r) == r.status = "skipped" /\ r.notes = AutoAgedNote(DaysThreshold)

(* C8: when a Lab submission and an auto-aging sweep target the same       *)
(* pending_refinement record concurrently, at most one of the two          *)
(* transitions is applied: a submission whose run began before the sweep   *)
(* aged its record leaves the record as the sweep wrote it, and a sweep    *)
(* leaves a record the Lab has written as it is.  Under Spec.              *)
C8_AtMostOneApplied ==
  [][/\ LabSubmitStep =>
          LET i == ses.lab_queue[1].id
          IN (AutoAged(feedback[i]) /\ feedback[i].lab_entry_date >= ses.cutoff) =>
               feedback'[i] = feedback[i]
     /\ (sweep.pc = "update" /\ sweep'.pc = "idle") =>
          \A i \in DOMAIN feedback :
            feedback[i].status # "pending_refinement" => feedback'[i] = feedback[i]]_vars

LabExits == {"approved", "skipped", "discarded"}

(* C9: the Lab's exits are terminal: once a record has left                *)
(* pending_refinement for approved, skipped or discarded, no Lab action    *)
(* and no sweep changes its status again.  Under Spec.                     *)
C9_LabExitsTerminal ==
  [][\A i \in DOMAIN feedback :
       (feedback[i].lab_entry_date # NullDate /\ feedback[i].status \in LabExits) =>
         feedback'[i].status = feedback[i].status]_vars

(* C10: "save and train" on a pending_refinement record leaves it approved *)
(* with refinement data holding the record's category, the selected        *)
(* options, the selected follow-up options, the short explanation and the  *)
(* time of the refinement.  Under Spec.                                    *)
C10_SaveAndTrain ==
  [][(LabSubmitStep /\ ses.event = "save") =>
       LET i == ses.lab_queue[1].id
       IN feedback[i].status = "pending_refinement" =>
            /\ feedback'[i].status = "approved"
            /\ feedback'[i].refinement_data =
                 <<[category |-> feedback[i].category,
                    selected_options |-> ses.selected_options,
                    selected_followup |-> ses.selected_followup,
                    short_explanation |-> ses.short_explanation,
                    refined_at |-> now]>>]_vars

C10_Witness ==
  \E i \in DOMAIN feedback :
    /\ feedback[i].status = "approved"
    /\ feedback[i].refinement_data # NullData
    /\ feedback[i].refinement_data[1].category = "Words"
    /\ feedback[i].refinement_data[1].selected_options = <<>>
    /\ feedback[i].refinement_data[1].short_explanation = <<>>

LabSaveStep == LabSubmitStep /\ ses.event = "save"

(* C11: a record that left the Lab through skip or through auto-aging has  *)
(* status skipped and no refinement data; refinement data is written only  *)
(* by "save and train"; an approved record without refinement data was     *)
(* approved by triage and has never been in the Lab.  Under Spec.          *)
C11_SkippedWithoutData ==
  /\ [](\A i \in DOMAIN feedback :
          /\ hist[i].exit \in {"skip", "age"} =>
                feedback[i].status = "skipped" /\ feedback[i].refinement_data = NullData
          /\ (feedback[i].status = "approved" /\ feedback[i].refinement_data = NullData) =>
                ~hist[i].was_pending /\ hist[i].exit = "none")
  /\ [][\A i \in DOMAIN feedback :
          feedback'[i].refinement_data # feedback[i].refinement_data =>
            LabSaveStep /\ i = ses.lab_queue[1].id]_vars

C15_ReviewedAtLatest ==
  [][\A i \in DOMAIN feedback :
       feedback'[i].status # feedback[i].status => feedback'[i].reviewed_at = now]_vars

StatusSet ==
  {"pending", "approved", "rejected", "flagged", "pending_refinement", "skipped", "discarded"}

ApiCallEnds == api.pc = "idle" /\ api'.pc # "idle"

LowerCaseForms ==
  {<<"APPROVED", "approved">>, <<"Approved", "approved">>,
   <<"Pending_Refinement", "pending_refinement">>, <<"skipped", "skipped">>}

(* C14: a save with an explicit status, in any letter case and with any    *)
(* confidence score, stores the lower-case form of that status, never one  *)
(* computed from the confidence; update_status stores the lower-case form  *)
(* too.  Under SpecApi.                                                    *)
C14_StatusLowerCased ==
  [][(/\ ApiCallEnds
      /\ api'.op \in {"save", "update"}
      /\ api'.status_arg # "None"
      /\ api'.raised = "None") =>
       \E form \in LowerCaseForms :
         /\ form[1] = api'.status_arg
         /\ feedback'[api'.id].status = form[2]]_vars

C14_Witness ==
  /\ api.pc = "done" /\ api.op = "save" /\ api.status_arg = "Pending_Refinement"
  /\ api.confidence = 90 /\ api.raised = "None"
  /\ feedback[api.id].status = "pending_refinement"

(* C16: update_status to approved writes the status before the aggregator  *)
(* is called, and returns without an exception with the record approved    *)
(* whether the aggregator succeeds, raises or cannot be imported.          *)
(* Under SpecApi.                                                          *)
C16_AggregatorFailureSwallowed ==
  (api.pc = "done" /\ api.op = "update" /\ Lower(api.status_arg) = "approved") =>
    /\ api.outcome \in AggregatorOutcomes
    /\ api.seen = "approved"
    /\ api.raised = "None"
    /\ feedback[api.id].status = "approved"

C16_Witness ==
  /\ api.pc = "done" /\ api.op = "update" /\ api.status_arg = "APPROVED"
  /\ api.outcome = "import_error" /\ api.raised = "None"
  /\ feedback[api.id].status = "approved"

(* C17 as stated: whenever the semantic call fails, an answer that lacks a *)
(* key included, the classifier returns (true, 0.5) for a text of at least *)
(* 5 words and (false, 0.5) otherwise, and triage of a text under 5 words  *)
(* returns PENDING_REFINEMENT.  Under SpecTriage.                          *)
C17_FallbackOnAnyFailure ==
  (/\ TriageDone
   /\ tri.result.classified # <<>>
   /\ tri.result.classified[1].llm_called
   /\ (~tri.llm.ok \/ tri.llm.fields # {"is_actionable", "confidence"})) =>
    LET c == tri.result.classified[1]
        word_count == Len(Words(tri.text))
    IN /\ c.is_actionable = (word_count >= 5)
       /\ c.confidence = 50
       /\ (word_count < 5 => tri.result.status = "PENDING_REFINEMENT")

(* C17: when the semantic call raises (service error, timeout, an answer   *)
(* that does not parse, is no JSON object or holds a confidence that is no *)
(* number), the classifier returns (true, 0.5) for a text of at least 5    *)
(* words and (false, 0.5) otherwise, and triage of a text under 5 words    *)
(* returns PENDING_REFINEMENT; an answer that is a JSON object lacking a   *)
(* key is no failure: is_actionable reads as false and confidence as 0.5.  *)
(* Under SpecTriage.                                                       *)
C17_FallbackOnRaise ==
  (/\ TriageDone
   /\ tri.result.classified # <<>>
   /\ tri.result.classified[1].llm_called) =>
    LET c == tri.result.classified[1]
        word_count == Len(Words(tri.text))
    IN /\ ~tri.llm.ok =>
            /\ c.is_actionable = (word_count >= 5)
            /\ c.confidence = 50
            /\ (word_count < 5 => tri.result.status = "PENDING_REFINEMENT")
       /\ tri.llm.ok =>
            /\ c.is_actionable = ("is_actionable" \in tri.llm.fields /\ tri.llm.is_actionable)
            /\ c.confidence =
                 (IF "confidence" \in tri.llm.fields THEN tri.llm.confidence ELSE 50)

C17_Witness ==
  /\ TriageDone
  /\ tri.llm.failure = "unparsable"
  /\ Len(Words(tri.text)) = 4
  /\ tri.result.classified # <<>>
  /\ tri.result.classified[1].llm_called
  /\ tri.result.classified[1].is_actionable = FALSE
  /\ tri.result.classified[1].confidence = 50
  /\ tri.result.status = "PENDING_REFINEMENT"

----------------------------------------------------------------------------
(* The scoring functions called on their own: the classifier, the context  *)
(* score and the confidence, on one feedback record and one history list.  *)

(* 19, 20, 21 and 22 characters among the texts that are not blank. *)
ScoreTexts ==
  {<<>>, <<Space>>, <<Space, Space>>, <<"bad">>, <<Space, "bad", Space>>, NWords(2, "bad"),
   NWords(5, "bad"), <<"opening", Space, "opening", Space, "tone">>,
   <<"opening", Space, "opening", Space, "tone", Space>>,
   <<"bad", Space, "everything", Space, "bad", Space, "bad">>,
   <<"tone", Space, "Tone">>, <<"קצרה">>, <<"טון", Space, "tone">>}

ScorePersonas == {"Unknown", "Founder"}

ScoreFeedback ==
  [rating : Ratings, category : Categories, raw_text_feedback : ScoreTexts,
   persona : ScorePersonas, platform : {"LinkedIn"}]

HistoryRows == [rating : {1, 2, 5}, persona : ScorePersonas, platform : {"LinkedIn"}]

ScoreHistories == UNION {[1..n -> HistoryRows] : n \in 0..MaxHistory}

CalcClassify(feedback_text, category, rating, llm) ==
  /\ calc.pc = "idle"
  /\ calc' = [CalcIdle EXCEPT
       !.pc = "done", !.op = "classify",
       !.fb = [NoFeedbackData EXCEPT !.rating = rating, !.category = category,
                                     !.raw_text_feedback = feedback_text],
       !.llm = llm,
       !.classification = classify_feedback_actionability(feedback_text, category, rating, llm)]
  /\ UNCHANGED <<feedback, now, sub, ses, sweep, tri, hist, api, chat>>

CalcContext(fb) ==
  /\ calc.pc = "idle"
  /\ calc' = [CalcIdle EXCEPT !.pc = "done", !.op = "context", !.fb = fb,
                              !.score = calc_context_score(fb)]
  /\ UNCHANGED <<feedback, now, sub, ses, sweep, tri, hist, api, chat>>

CalcConfidence(fb, historical_data) ==
  /\ calc.pc = "idle"
  /\ calc' = [CalcIdle EXCEPT !.pc = "done", !.op = "confidence", !.fb = fb,
                              !.historical_data = historical_data,
                              !.score = calculate_confidence(fb, historical_data),
                              !.ulps = calculate_confidence_ulps(fb, historical_data)]
  /\ UNCHANGED <<feedback, now, sub, ses, sweep, tri, hist, api, chat>>

CalcConsistency(fb, historical_data) ==
  /\ calc.pc = "idle"
  /\ calc' = [CalcIdle EXCEPT !.pc = "done", !.op = "consistency", !.fb = fb,
                              !.historical_data = historical_data,
                              !.score = calc_consistency_score(fb, historical_data)]
  /\ UNCHANGED <<feedback, now, sub, ses, sweep, tri, hist, api, chat>>

CalcSpecificity(fb) ==
  /\ calc.pc = "idle"
  /\ calc' = [CalcIdle EXCEPT !.pc = "done", !.op = "specificity", !.fb = fb,
                              !.score = calc_specificity_score(fb)]
  /\ UNCHANGED <<feedback, now, sub, ses, sweep, tri, hist, api, chat>>

(* 999 characters with the last word, 1000 without it, among the texts. *)
SanitizeTexts ==
  {<<>>, <<Space>>, <<"bad", Space>>, <<"ignore", Space, Space, "previous">>,
   <<"ignore", Space, "bad", Space, "previous">>, <<"new", Space, "instruction">>,
   <<"bad", Space, "Override", Space, "a@b.co">>, <<"a@b.co", Space, "disregard">>,
   <<"you", Space, "are", Space, "now">>, <<"you", Space, "are">>,
   <<Space, "bad", Space, "555-123-4567", Space>>, <<"5551234567">>,
   <<"a@b.co", Space, "4111-1111-1111-1111">>, <<"bad", Space, "4111111111111111">>,
   <<LongWord, Space, "override">>, <<LongWord, Space, "a@b.co", Space, Space, "override">>,
   <<LongWord, Space, "a@b.co", Space, "bad", Space, "bad">>}

CalcSanitize(text) ==
  /\ calc.pc = "idle"
  /\ calc' = [CalcIdle EXCEPT !.pc = "done", !.op = "sanitize",
                              !.fb = [NoFeedbackData EXCEPT !.raw_text_feedback = text],
                              !.text = sanitize_feedback(text)]
  /\ UNCHANGED <<feedback, now, sub, ses, sweep, tri, hist, api, chat>>

CalcReturn ==
  /\ calc.pc = "done"
  /\ calc' = CalcIdle
  /\ UNCHANGED <<feedback, now, sub, ses, sweep, tri, hist, api, chat>>

NextScore ==
  \/ /\ calc.pc = "idle"
     /\ \E feedback_text \in ScoreTexts, category \in Categories, rating \in Ratings,
           llm \in LLMResponses :
          CalcClassify(feedback_text, category, rating, llm)
  \/ /\ calc.pc = "idle"
     /\ \E fb \in ScoreFeedback : CalcContext(fb)
  \/ /\ calc.pc = "idle"
     /\ \E fb \in ScoreFeedback, historical_data \in ScoreHistories :
          CalcConfidence(fb, historical_data)
  \/ /\ calc.pc = "idle"
     /\ \E fb \in ScoreFeedback, historical_data \in ScoreHistories :
          CalcConsistency(fb, historical_data)
  \/ /\ calc.pc = "idle"
     /\ \E fb \in ScoreFeedback : CalcSpecificity(fb)
  \/ /\ calc.pc = "idle"
     /\ \E text \in SanitizeTexts : CalcSanitize(text)
  \/ CalcReturn

SpecScore == Init /\ [][NextScore]_vars

CalcDone(op) == calc.pc = "done" /\ calc.op = op

(* C18: the classifier returns (false, 0.0) for every empty or             *)
(* whitespace-only text and (false, 0.1) for every text of exactly one     *)
(* word, for every category and rating, and in both cases the semantic     *)
(* service is not called.  Under SpecScore.                                *)
C18_ShortTextsNotSentToService ==
  CalcDone("classify") =>
    LET c == calc.classification
        tokens == Len(Words(calc.fb.raw_text_feedback))
    IN /\ tokens = 0 => (~c.is_actionable /\ c.confidence = 0 /\ ~c.llm_called)
       /\ tokens = 1 => (~c.is_actionable /\ c.confidence = 10 /\ ~c.llm_called)

C18_Witness ==
  /\ CalcDone("classify")
  /\ calc.fb.raw_text_feedback = <<Space, "bad", Space>>
  /\ calc.fb.rating = 5
  /\ calc.fb.category = StrategicMiss
  /\ calc.llm.ok /\ calc.llm.is_actionable
  /\ ~calc.classification.is_actionable
  /\ calc.classification.confidence = 10
  /\ ~calc.classification.llm_called

Weighted(context, consistency, specificity) ==
  (3 * context + 4 * consistency + 3 * specificity) \div 10

(* C19: calculate_confidence returns 0.3 * context + 0.4 * consistency +   *)
(* 0.3 * specificity clamped to [0,1], and the result lies in [0,1], for   *)
(* every feedback record and every history list.  Under SpecScore.         *)
C19_WeightedAndClamped ==
  CalcDone("confidence") =>
    LET w == Weighted(calc_context_score(calc.fb),
                      calc_consistency_score(calc.fb, calc.historical_data),
                      calc_specificity_score(calc.fb))
    IN /\ calc.score = (IF w < 0 THEN 0 ELSE IF w > 100 THEN 100 ELSE w)
       /\ calc.score \in 0..100

C19_Witness ==
  /\ CalcDone("confidence")
  /\ calc_context_score(calc.fb) = 100
  /\ calc_consistency_score(calc.fb, calc.historical_data) = 30
  /\ calc_specificity_score(calc.fb) = 100
  /\ calc.score = 72

Bonus(applies, points) == IF applies THEN points ELSE 0

(* C20: calc_context_score returns 0.2 for every empty or whitespace-only  *)
(* text whatever the category and rating; otherwise min(1.0, 0.5 + 0.2 for *)
(* a category other than Other + 0.2 for more than 20 characters + 0.1 for *)
(* rating 1 or 5): no bonus for ratings 2, 3, 4, none for exactly 20       *)
(* characters.  Under SpecScore.                                           *)
C20_ContextScore ==
  CalcDone("context") =>
    LET text == calc.fb.raw_text_feedback
    IN /\ IsBlank(text) => calc.score = 20
       /\ ~IsBlank(text) =>
            calc.score = Min(100, 50 + Bonus(calc.fb.category # "Other", 20)
                                     + Bonus(TextLen(text) > 20, 20)
                                     + Bonus(calc.fb.rating \in {1, 5}, 10))
       /\ (TextLen(text) = 20 /\ calc.fb.rating \in 2..4) =>
            calc.score = 50 + Bonus(calc.fb.category # "Other", 20)

C20_Witness ==
  /\ CalcDone("context")
  /\ TextLen(calc.fb.raw_text_feedback) = 20
  /\ calc.fb.category = "Tone"
  /\ calc.fb.rating = 4
  /\ calc.score = 70

(* The history rows of the persona and platform of the feedback. *)
Matching(fb, historical_data) ==
  SelectSeq(historical_data, LAMBDA h : h.persona = fb.persona /\ h.platform = fb.platform)

RECURSIVE RatingSum(_)
RatingSum(rows) == IF rows = <<>> THEN 0 ELSE Head(rows).rating + RatingSum(Tail(rows))

KeywordMatches(text) ==
  Cardinality({kw \in hebrew_keywords \cup english_keywords :
                 \E i \in DOMAIN text : kw \in KeywordsIn(Lower(text[i]))})

(* C22: calc_specificity_score is 0.4 for no keyword match, 0.7 for        *)
(* exactly one, 1.0 for two or more, a keyword of the Hebrew and English   *)
(* lists counting once however often it occurs, and it is monotonic        *)
(* non-decreasing in the number of matches.  Under SpecScore.              *)
C22_SpecificityScore ==
  CalcDone("specificity") =>
    LET m == KeywordMatches(calc.fb.raw_text_feedback)
    IN /\ m = 0 => calc.score = 40
       /\ m = 1 => calc.score = 70
       /\ m >= 2 => calc.score = 100
       /\ \A t \in ScoreTexts :
            KeywordMatches(t) <= m =>
              calc_specificity_score([calc.fb EXCEPT !.raw_text_feedback = t]) <= calc.score

(* One keyword, twice in the text, once in upper case. *)
C22_Witness ==
  /\ CalcDone("specificity")
  /\ calc.fb.raw_text_feedback = <<"tone", Space, "Tone">>
  /\ calc.score = 70

Truncated(text) == IF TextLen(text) > 1000 THEN TakeChars(text, 1000) ELSE text

HasInjection(text) == \E pat \in injection_patterns, i \in DOMAIN text : MatchesAt(text, pat, i)

(* The placeholder of the pattern a token is an instance of. *)
Placeholder(tok) ==
  CASE tok \in {"555-123-4567", "5551234567"} -> "[PHONE_REDACTED]"
    [] tok = "a@b.co" -> "[EMAIL_REDACTED]"
    [] tok \in {"4111-1111-1111-1111", "4111111111111111"} -> "[CARD_REDACTED]"
    [] OTHER -> tok

(* C23: sanitize_feedback returns exactly the placeholder "[SANITIZED:     *)
(* Suspicious content removed]" whenever an injection pattern matches the  *)
(* text cut to 1000 characters, with no partial redaction; when none       *)
(* matches, every phone, email and card is replaced by the placeholder of  *)
(* its kind.  Under SpecScore.                                             *)
C23_SanitizedOrRedacted ==
  (CalcDone("sanitize") /\ ~IsBlank(calc.fb.raw_text_feedback)) =>
    LET cut == Truncated(calc.fb.raw_text_feedback)
    IN /\ HasInjection(cut) => calc.text = <<"[SANITIZED: Suspicious content removed]">>
       /\ ~HasInjection(cut) => calc.text = Strip([i \in DOMAIN cut |-> Placeholder(cut[i])])

(* C24: in the submission flow the confidence score and the triage are     *)
(* computed on the sanitized text, which is also the text handed to the    *)
(* classifier and its service, and the text save_feedback stores is the    *)
(* sanitized text.  Under SpecStore.                                       *)
C24_SanitizedBeforeScoring ==
  [][\A u \in Submitters :
       /\ (sub[u].pc = "idle" /\ sub'[u].pc = "save") =>
            LET s == sub'[u]
                clean == sanitize_feedback(s.feedback_text)
                historical == get_recent_feedback(feedback, s.client_id,
                                platform_to_agent_type(s.platform), 30, 0, now)
                feedback_data == [rating |-> s.rating, category |-> s.category,
                                  raw_text_feedback |-> clean, persona |-> s.persona,
                                  platform |-> s.platform]
            IN /\ s.confidence = calculate_confidence(feedback_data, historical)
               /\ s.triage_text = clean
               /\ \E llm \in StoreLLM :
                    LET r == evaluate_feedback_quality(s.rating, clean, s.category, llm, now)
                    IN /\ s.feedback_status = r.status
                       /\ s.actionability_score = r.actionability_score
       /\ (sub[u].pc = "save" /\ sub'[u].pc = "idle") =>
            feedback'[Len(feedback')].raw_text_feedback =
              sanitize_feedback(sub[u].feedback_text)]_vars

----------------------------------------------------------------------------
(* start.py: the chat-start handlers.  They are coroutines of one event    *)
(* loop: one of them runs at a time, from an await to the next, and        *)
(* "with TOOLS_LOCK" is a blocking acquire of a threading.Lock made on the *)
(* thread of the loop.                                                     *)

OtherVars == <<feedback, now, sub, ses, sweep, tri, hist, api, calc>>

(* Line 53: if TOOLS is None, up to the acquire of line 54. *)
ChatStart(h) ==
  /\ chat.pc[h] = "idle"
  /\ chat.loop = "free"
  /\ chat' = IF chat.TOOLS = "None"
               THEN [chat EXCEPT !.pc[h] = "lock", !.loop = h]
               ELSE [chat EXCEPT !.pc[h] = "settings"]
  /\ UNCHANGED OtherVars

(* Lines 54-57: the acquire returns, the second test, await of send(). *)
ChatAcquire(h) ==
  /\ chat.pc[h] = "lock"
  /\ chat.loop = h
  /\ chat.TOOLS_LOCK = "free"
  /\ chat' = IF chat.TOOLS = "None"
               THEN [chat EXCEPT !.pc[h] = "send_start", !.TOOLS_LOCK = h, !.loop = "free"]
               ELSE [chat EXCEPT !.pc[h] = "settings", !.loop = "free"]
  /\ UNCHANGED OtherVars

(* Line 59: cl.make_async(initialize_all_tools)() starts on a worker thread. *)
ChatCallInit(h) ==
  /\ chat.pc[h] = "send_start"
  /\ chat.loop = "free"
  /\ chat' = [chat EXCEPT !.pc[h] = "init", !.worker = "running",
                          !.initializing = @ \cup {h}]
  /\ UNCHANGED OtherVars

(* initialize_all_tools returns or raises, on its thread. *)
WorkerFinish(outcome) ==
  /\ chat.worker = "running"
  /\ chat' = [chat EXCEPT !.worker = outcome]
  /\ UNCHANGED OtherVars

(* Lines 59-78: the await returns: TOOLS is assigned, or an except clause. *)
ChatInitDone(h) ==
  /\ chat.pc[h] = "init"
  /\ chat.loop = "free"
  /\ chat.worker \in {"ok", "raised"}
  /\ chat' = IF chat.worker = "ok"
               THEN [chat EXCEPT !.pc[h] = "send_ready", !.TOOLS = "tools",
                                 !.assigned = @ + 1, !.worker = "none",
                                 !.initializing = @ \ {h}]
               ELSE [chat EXCEPT !.pc[h] = "send_error", !.worker = "none",
                                 !.initializing = @ \ {h}]
  /\ UNCHANGED OtherVars

(* Line 60 done: the with block ends, the lock is released, line 80. *)
ChatReady(h) ==
  /\ chat.pc[h] = "send_ready"
  /\ chat.loop = "free"
  /\ chat' = [chat EXCEPT !.pc[h] = "settings", !.TOOLS_LOCK = "free"]
  /\ UNCHANGED OtherVars

(* The return of an except clause: the with block ends, the handler too. *)
ChatError(h) ==
  /\ chat.pc[h] = "send_error"
  /\ chat.loop = "free"
  /\ chat' = [chat EXCEPT !.pc[h] = "returned", !.TOOLS_LOCK = "free"]
  /\ UNCHANGED OtherVars

NextChat ==
  \/ \E h \in Handlers : ChatStart(h)
  \/ \E h \in Handlers : ChatAcquire(h)
  \/ \E h \in Handlers : ChatCallInit(h)
  \/ \E outcome \in {"ok", "raised"} : WorkerFinish(outcome)
  \/ \E h \in Handlers : ChatInitDone(h)
  \/ \E h \in Handlers : ChatReady(h)
  \/ \E h \in Handlers : ChatError(h)

(* The loop runs a handler that can run, the worker thread finishes. *)
SpecChat == Init /\ [][NextChat]_vars /\ WF_vars(NextChat)

(* C25: with several chat-start handlers started while TOOLS is None,      *)
(* initialize_all_tools runs in at most one handler at a time, TOOLS is    *)
(* assigned at most once, and every handler that reaches the lock gets     *)
(* past it: none stays blocked on TOOLS_LOCK forever.  Under SpecChat.     *)
C25_DoubleCheckedLocking ==
  /\ [](Cardinality(chat.initializing) <= 1 /\ chat.assigned <= 1)
  /\ \A h \in Handlers : (chat.pc[h] = "lock") ~> (chat.pc[h] # "lock")

----------------------------------------------------------------------------
(* The Lab queue over time: records saved as triage decides them, any call *)
(* of update_status, auto_age_lab_items called again and again, the clock  *)
(* advancing.                                                              *)

QueueStatuses == {"APPROVED", "PENDING_REFINEMENT", "skipped", "DISCARDED"}

NextQueue ==
  \/ \E status \in {"APPROVED", "PENDING_REFINEMENT"} :
       ApiSave(status, 90, IF status = "PENDING_REFINEMENT" THEN now ELSE NullDate)
  \/ \E feedback_id \in 1..MaxRecords, new_status \in QueueStatuses :
       ApiUpdate(feedback_id, new_status)
  \/ \E outcome \in AggregatorOutcomes : ApiAggregate(outcome)
  \/ ApiReturn
  \/ ApiAutoAge(DaysThreshold)
  \/ Tick

(* Time advances, a call that was started returns, and auto_age_lab_items  *)
(* is called whenever it is again and again possible to call it.           *)
SpecQueue ==
  /\ Init
  /\ [][NextQueue]_vars
  /\ WF_vars(Tick)
  /\ WF_vars(ApiReturn)
  /\ WF_vars(\E outcome \in AggregatorOutcomes : ApiAggregate(outcome))
  /\ SF_vars(ApiAutoAge(DaysThreshold))

InLab(i) == i \in DOMAIN feedback /\ feedback[i].status = "pending_refinement"

LeftLab(i) == i \in DOMAIN feedback /\ feedback[i].status \in {"approved", "skipped", "discarded"}

(* C26: every record that is in pending_refinement, put there by the save  *)
(* of a triage result or by a call of update_status, eventually leaves it  *)
(* for approved, skipped or discarded; stated for the records that are in  *)
(* the Lab on day 0, the clock running past the aging threshold.  Under    *)
(* SpecQueue.                                                              *)
C26_NoStarvation ==
  \A i \in 1..MaxRecords : (InLab(i) /\ now = 0) ~> LeftLab(i)

(* The records a step moves from pending_refinement to skipped. *)
AgedByStep == {i \in DOMAIN feedback : /\ feedback[i].status = "pending_refinement"
                                       /\ feedback'[i].status = "skipped"}

(* C27: the number auto_age_lab_items returns is the number of records its *)
(* update moved from pending_refinement to skipped, whatever update_status *)
(* calls of the Lab run between its select and its update.  Under Spec.    *)
C27_CountIsWhatChanged ==
  [][(sweep.pc = "update" /\ sweep'.pc = "idle") =>
       sweep.count = Cardinality(AgedByStep)]_vars

(* C28: every actionability_score that evaluate_feedback_quality returns   *)
(* lies in [0,1], whatever boolean and confidence the semantic service     *)
(* answers.  Under SpecTriage.                                             *)
C28_ScoreInUnitInterval ==
  TriageDone => tri.result.actionability_score \in 0..100

(* Lines 274-284 of confidence_calculator.py; line 291 of get_patterns. *)
should_auto_approve(hundredths, ulps) == FloatGeq(hundredths, ulps, 80)

passes_min_confidence(hundredths, ulps, min_confidence) ==
  FloatGeq(hundredths, ulps, min_confidence)

(* A record of rating 5, not a Strategic Miss, with a blank text. *)
BlankAutoApproved ==
  /\ CalcDone("confidence")
  /\ calc.fb.rating = 5
  /\ calc.fb.category # StrategicMiss
  /\ IsBlank(calc.fb.raw_text_feedback)

(* C29 as stated: a record auto-approved by the rating-5 rule with an      *)
(* empty or whitespace-only text has a confidence of at most 0.58 for      *)
(* every history, is not returned by get_patterns at min_confidence 0.7    *)
(* and is below the 0.8 auto-approve threshold.  Under SpecScore.          *)
C29_AtMost058 ==
  BlankAutoApproved =>
    /\ FloatLeq(calc.score, calc.ulps, 58)
    /\ ~passes_min_confidence(calc.score, calc.ulps, 70)
    /\ ~should_auto_approve(calc.score, calc.ulps)

(* C29: such a record is approved by triage and has a confidence of at     *)
(* most 0.58 up to one rounding error of the floating-point sum            *)
(* (0.5800000000000001 when the consistency score is 1.0), for every       *)
(* history, so it is not returned by get_patterns at min_confidence 0.7    *)
(* and is below the 0.8 auto-approve threshold.  Under SpecScore.          *)
C29_AtMost058Rounded ==
  BlankAutoApproved =>
    /\ \A llm \in LLMResponses :
         evaluate_feedback_quality(calc.fb.rating, calc.fb.raw_text_feedback,
                                   calc.fb.category, llm, 0).status = "APPROVED"
    /\ calc.score <= 58
    /\ (calc.score = 58 => calc.ulps <= 1)
    /\ calc.score * 10 = 3 * 20 + 4 * calc_consistency_score(calc.fb, calc.historical_data)
                         + 3 * 40
    /\ ~passes_min_confidence(calc.score, calc.ulps, 70)
    /\ ~should_auto_approve(calc.score, calc.ulps)

C29_Witness ==
  /\ BlankAutoApproved
  /\ calc.fb.raw_text_feedback = <<Space>>
  /\ Len(calc.historical_data) = 1
  /\ calc_consistency_score(calc.fb, calc.historical_data) = 100
  /\ calc.score = 58
  /\ calc.ulps = 1

(* C30: update_status with a valid status and an id that matches no record *)
(* changes no record, creates none and completes without an exception, as  *)
(* a successful update does.  Under SpecApi.                               *)
C30_MissingIdSilent ==
  /\ [](( /\ api.pc = "done"
          /\ api.op = "update_no_row"
          /\ Lower(api.status_arg) \in StatusSet) => api.raised = "None")
  /\ [][(ApiCallEnds /\ api'.op = "update_no_row" /\ Lower(api'.status_arg) \in StatusSet) =>
          /\ feedback' = feedback
          /\ api'.raised = "None"
          /\ api'.id \notin DOMAIN feedback']_vars

C30_Witness ==
  /\ api.pc = "done" /\ api.op = "update_no_row" /\ api.status_arg = "APPROVED"
  /\ api.outcome = "ok" /\ api.raised = "None"
  /\ Len(feedback) = 1
  /\ api.id = 2
  /\ feedback[1].status = "pending_refinement"

====
